---------------------------- MODULE Spec2Model ----------------------------
(***************************************************************************)
(* Termset retrieval pipeline of infre: BaseIRModel (fit / evaluate) and   *)
(* the numeric helpers of retrieval.py.                                    *)
(*                                                                         *)
(* Numbers.  Values the code rounds to 3 decimals are integers counted in  *)
(* thousandths.  Unrounded quotients (precision, recall) are exact         *)
(* fractions <<numerator, denominator>>.  A cosine similarity is kept as   *)
(* the triple (dot, |u|^2, |v|^2) it is computed from and compared         *)
(* exactly; floating-point error below that resolution is not modelled.    *)
(***************************************************************************)
EXTENDS Integers, Sequences, FiniteSets, TLC

VARIABLES
    \* ---- the collection and a BaseIRModel object ----
    inverted_index,   \* collection.inverted_index: term -> posting list
    num_docs,         \* collection.num_docs
    mode,             \* "idf" or "tnw": what the subclass's _model_func returns
    nwk,              \* per-term weights of the extended model
    q2vec,            \* self._q2vec
    docs2vec,         \* self._docs2vec
    m_weights,        \* self._m_weights
    precision,        \* self.precision
    recall,           \* self.recall
    pc,               \* "idle", "fit" or "evaluate": the method running
    queries,          \* fit's argument
    min_freq,         \* fit's argument mf
    fit_i,            \* fit's loop position (queries already processed)
    relevant,         \* evaluate's argument
    eval_i,           \* evaluate's loop position
    retrieved_docs,   \* evaluate's local: the ranking of the last query scored
    ret,              \* what the last call returned or raised
    nfit,             \* number of fit calls begun
    neval,            \* number of evaluate calls begun
    log,              \* history: <<"mine", query>> and <<"score", i>> events
    prev_eval,        \* history: argument and result of the previous evaluate
    \* ---- calc_precision_recall, run on its own ----
    pr_sim_docs, pr_relevant, pr, pr_i, pr_ret,
    \* ---- qd_similarities / rank_documents, run on their own ----
    rk_query, rk_dtm, rk_sims, rk_ret,
    \* ---- calculate_tnw, run on its own ----
    tw_termsets, tw_nwk, tw_ret,
    \* ---- apriori followed by termsets2vec, run on their own ----
    ts_query, ts_mf, ts_termsets, ts_ret

modelVars == <<inverted_index, num_docs, mode, nwk, q2vec, docs2vec, m_weights,
               precision, recall, pc, queries, min_freq, fit_i, relevant,
               eval_i, retrieved_docs, ret, nfit, neval, log, prev_eval>>
prVars == <<pr_sim_docs, pr_relevant, pr, pr_i, pr_ret>>
rkVars == <<rk_query, rk_dtm, rk_sims, rk_ret>>
twVars == <<tw_termsets, tw_nwk, tw_ret>>
tsVars == <<ts_query, ts_mf, ts_termsets, ts_ret>>
vars == <<modelVars, prVars, rkVars, twVars, tsVars>>

-----------------------------------------------------------------------------
(* Bounds *)

\* longest ranked list given to calc_precision_recall on its own
MaxRank == 3
\* number of documents of the generated collections and matrices
MaxDocs == 2
\* number of fit / evaluate calls made on one model object
MaxCalls == 3

-----------------------------------------------------------------------------
(* Arithmetic *)

\* round(x, 3): three decimals, i.e. thousandths
Scale == 1000

Abs(x) == IF x < 0 THEN -x ELSE x

Min(S) == CHOOSE x \in S : \A y \in S : x <= y

RECURSIVE GCD(_, _)
GCD(a, b) == IF b = 0 THEN a ELSE GCD(b, a % b)

\* n / d rounded to the nearest integer, ties to even (round of Python and
\* of numpy); d > 0
RoundDiv(n, d) ==
    LET q == n \div d
        r == n % d
    IN  IF 2 * r < d THEN q
        ELSE IF 2 * r > d THEN q + 1
        ELSE IF q % 2 = 0 THEN q ELSE q + 1

\* fractions <<n, d>> with d > 0
Frac(n, d) == LET g == GCD(Abs(n), d) IN <<n \div g, d \div g>>
FracAdd(x, y) == Frac(x[1] * y[2] + y[1] * x[2], x[2] * y[2])
FracLeq(x, y) == x[1] * y[2] <= y[1] * x[2]

RECURSIVE FracSum(_)
FracSum(s) == IF s = <<>> THEN <<0, 1>> ELSE FracAdd(Head(s), FracSum(Tail(s)))

-----------------------------------------------------------------------------
(* retrieval.py: calc_precision_recall *)

\* the locals before the loop
PRStart == [cnt |-> 0, retrieved |-> 1, recall |-> <<>>, precision |-> <<>>]

\* the loop body with "retrieved += 1" moved under the else of the hit test
PRBodySkipsCount(st, doc, rel) ==
    IF doc \in rel
    THEN [cnt       |-> st.cnt + 1,
          retrieved |-> st.retrieved,
          precision |-> Append(st.precision, Frac(st.cnt + 1, st.retrieved)),
          recall    |-> Append(st.recall, Frac(st.cnt + 1, Cardinality(rel)))]
    ELSE [st EXCEPT !.retrieved = @ + 1]

\* one iteration of "for doc in sim_docs"
PRBody(st, doc, rel) ==
    IF doc \in rel
    THEN [cnt       |-> st.cnt + 1,
          retrieved |-> st.retrieved + 1,
          precision |-> Append(st.precision, Frac(st.cnt + 1, st.retrieved)),
          recall    |-> Append(st.recall, Frac(st.cnt + 1, Cardinality(rel)))]
    ELSE [st EXCEPT !.retrieved = @ + 1]

PRRunning == [outcome |-> "running", avg_pre |-> <<0, 1>>, avg_rec |-> <<0, 1>>]

\* the two averages; sum([]) / len([]) raises ZeroDivisionError
PRFinish(st) ==
    IF Len(st.precision) = 0
    THEN [outcome |-> "ZeroDivisionError", avg_pre |-> <<0, 1>>, avg_rec |-> <<0, 1>>]
    ELSE LET sp == FracSum(st.precision)
             sr == FracSum(st.recall)
         IN  [outcome |-> "returned",
              avg_pre |-> Frac(sp[1], sp[2] * Len(st.precision)),
              avg_rec |-> Frac(sr[1], sr[2] * Len(st.recall))]

RECURSIVE PRLoop(_, _, _)
PRLoop(st, docs, rel) ==
    IF docs = <<>> THEN st ELSE PRLoop(PRBody(st, Head(docs), rel), Tail(docs), rel)

\* the whole function, as evaluate calls it
calc_precision_recall(sim_docs, rel) == PRFinish(PRLoop(PRStart, sim_docs, rel))

\* ranked lists: every document id at most once (the keys of a dict)
RankedLists(ids) ==
    UNION {{s \in [1..n -> ids] : \A i, j \in 1..n : i # j => s[i] # s[j]} :
           n \in 0..Cardinality(ids)}

PRInit ==
    /\ pr_sim_docs \in RankedLists(1..MaxRank)
    /\ pr_relevant \in SUBSET (1..MaxRank)
    /\ pr = PRStart
    /\ pr_i = 0
    /\ pr_ret = PRRunning

PRStep ==
    /\ pr_ret.outcome = "running"
    /\ pr_i < Len(pr_sim_docs)
    /\ pr' = PRBody(pr, pr_sim_docs[pr_i + 1], pr_relevant)
    /\ pr_i' = pr_i + 1
    /\ UNCHANGED <<pr_sim_docs, pr_relevant, pr_ret,
                   modelVars, rkVars, twVars, tsVars>>

PRReturn ==
    /\ pr_ret.outcome = "running"
    /\ pr_i = Len(pr_sim_docs)
    /\ pr_ret' = PRFinish(pr)
    /\ UNCHANGED <<pr_sim_docs, pr_relevant, pr, pr_i,
                   modelVars, rkVars, twVars, tsVars>>

-----------------------------------------------------------------------------
(* Exact comparison of large products: naturals as little-endian digit     *)
(* sequences                                                               *)

BigDigits == 100 * 100

RECURSIVE BigOf(_)
BigOf(n) == IF n < BigDigits THEN <<n>> ELSE <<n % BigDigits>> \o BigOf(n \div BigDigits)

RECURSIVE BigCarry(_, _)
BigCarry(coeffs, carry) ==
    IF coeffs = <<>>
    THEN IF carry = 0 THEN <<>> ELSE BigOf(carry)
    ELSE LET t == Head(coeffs) + carry
         IN  <<t % BigDigits>> \o BigCarry(Tail(coeffs), t \div BigDigits)

RECURSIVE BigConv(_, _, _, _)
BigConv(x, y, k, i) ==
    IF i > Len(x) THEN 0
    ELSE (IF k - i + 1 \in 1..Len(y) THEN x[i] * y[k - i + 1] ELSE 0)
         + BigConv(x, y, k, i + 1)

BigMul(x, y) ==
    BigCarry([k \in 1..(Len(x) + Len(y) - 1) |-> BigConv(x, y, k, 1)], 0)

RECURSIVE BigTrim(_)
BigTrim(x) ==
    IF x # <<>> /\ x[Len(x)] = 0 THEN BigTrim(SubSeq(x, 1, Len(x) - 1)) ELSE x

RECURSIVE BigLessFrom(_, _, _)
BigLessFrom(x, y, i) ==
    IF i = 0 THEN FALSE
    ELSE IF x[i] # y[i] THEN x[i] < y[i]
    ELSE BigLessFrom(x, y, i - 1)

BigLess(x, y) ==
    LET a == BigTrim(x)
        b == BigTrim(y)
    IN  IF Len(a) # Len(b) THEN Len(a) < Len(b) ELSE BigLessFrom(a, b, Len(a))

-----------------------------------------------------------------------------
(* Vectors and matrices (numpy arrays) *)

\* A 2-D array is [shape |-> <<rows, columns>>, cell |-> [<<i, d>> |-> value]].

\* row d of m.T
Col(m, d) == [i \in 1..m.shape[1] |-> m.cell[<<i, d>>]]

RECURSIVE Dot(_, _)
Dot(u, v) == IF u = <<>> THEN 0 ELSE Head(u) * Head(v) + Dot(Tail(u), Tail(v))

\* all(u == 0)
AllZero(u) == \A i \in 1..Len(u) : u[i] = 0

-----------------------------------------------------------------------------
(* retrieval.py: cosine_similarity, evaluate_sim                           *)
(* bmodel.py: qd_similarities, rank_documents                              *)

\* "return 0."
ZeroSim == [branch |-> "zero", dot |-> 0, uu |-> 1, vv |-> 1]

\* "return dot(u,v) / (norm(u)*norm(v))"; with a zero norm the quotient is nan
Quotient(u, v) == [branch |-> "div", dot |-> Dot(u, v), uu |-> Dot(u, u), vv |-> Dot(v, v)]

\* the guard written with "and"
CosineGuardAnd(u, v) ==
    IF AllZero(u) /\ AllZero(v) THEN ZeroSim ELSE Quotient(u, v)

\* the guard left out
CosineNoGuard(u, v) == Quotient(u, v)

cosine_similarity(u, v) ==
    IF AllZero(u) \/ AllZero(v) THEN ZeroSim ELSE Quotient(u, v)

IsNan(s) == s.uu = 0 \/ s.vv = 0

\* s < t as floats compare: false when either is nan
SimLess(s, t) ==
    IF IsNan(s) \/ IsNan(t) THEN FALSE
    ELSE IF s.dot <= 0 /\ t.dot >= 0 THEN s.dot < 0 \/ t.dot > 0
    ELSE IF s.dot >= 0 /\ t.dot <= 0 THEN FALSE
    ELSE LET sd == BigOf(Abs(s.dot))
             td == BigOf(Abs(t.dot))
             ss == BigMul(BigMul(BigMul(sd, sd), BigOf(t.uu)), BigOf(t.vv))
             tt == BigMul(BigMul(BigMul(td, td), BigOf(s.uu)), BigOf(s.vv))
         IN  IF s.dot > 0 THEN BigLess(ss, tt) ELSE BigLess(tt, ss)

\* {id: cosine_similarity(query, dv) for id, dv in enumerate(dtsm.T, start=1)}
qd_similarities(query, dtsm) ==
    [id \in 1..dtsm.shape[2] |-> <<id, cosine_similarity(query, Col(dtsm, id))>>]

\* position at which a stable descending sort places x among the sorted r
RECURSIVE InsertDesc(_, _)
InsertDesc(r, x) ==
    IF r = <<>> THEN <<x>>
    ELSE IF SimLess(Head(r)[2], x[2]) THEN <<x>> \o r
    ELSE <<Head(r)>> \o InsertDesc(Tail(r), x)

RECURSIVE InsertAsc(_, _)
InsertAsc(r, x) ==
    IF r = <<>> THEN <<x>>
    ELSE IF SimLess(x[2], Head(r)[2]) THEN <<x>> \o r
    ELSE <<Head(r)>> \o InsertAsc(Tail(r), x)

RECURSIVE SortedDesc(_, _)
SortedDesc(items, acc) ==
    IF items = <<>> THEN acc ELSE SortedDesc(Tail(items), InsertDesc(acc, Head(items)))

RECURSIVE SortedAsc(_, _)
SortedAsc(items, acc) ==
    IF items = <<>> THEN acc ELSE SortedAsc(Tail(items), InsertAsc(acc, Head(items)))

\* sorted(...) without reverse=True
RankAscending(qd_sims) == SortedAsc(qd_sims, <<>>)

\* sorted(qd_sims.items(), key=lambda item: item[1], reverse=True)
rank_documents(qd_sims) == SortedDesc(qd_sims, <<>>)

\* retrieval.py's evaluate_sim: the same two steps in one function
evaluate_sim(query, dtm) ==
    SortedDesc([id \in 1..dtm.shape[2] |->
                   <<id, cosine_similarity(query, Col(dtm, id))>>], <<>>)

\* entries of the vectors the ranking is run on
RankVals == {-1, 0, 1}
\* their lengths
RankDims == {0, 1, 2}

RKInit ==
    /\ \E L \in RankDims :
          /\ rk_query \in [1..L -> RankVals]
          /\ \E N \in 1..MaxDocs :
                \E c \in [(1..L) \X (1..N) -> RankVals] :
                    rk_dtm = [shape |-> <<L, N>>, cell |-> c]
    /\ rk_sims = <<>>
    /\ rk_ret = <<>>

RKSimilarities ==
    /\ rk_sims = <<>>
    /\ rk_sims' = qd_similarities(rk_query, rk_dtm)
    /\ UNCHANGED <<rk_query, rk_dtm, rk_ret,
                   modelVars, prVars, twVars, tsVars>>

RKRank ==
    /\ rk_sims # <<>>
    /\ rk_ret = <<>>
    /\ rk_ret' = rank_documents(rk_sims)
    /\ UNCHANGED <<rk_query, rk_dtm, rk_sims,
                   modelVars, prVars, twVars, tsVars>>

-----------------------------------------------------------------------------
(* The collection *)

Terms == {"a", "b"}

\* term frequencies of the generated posting lists
TermFreqs == {1, 2}

\* posting lists over documents 1..N: (id, tf) pairs, ids unique, tf positive
PostingLists(N) ==
    UNION {{p \in [1..n -> (1..N) \X TermFreqs] :
                \A i, j \in 1..n : i < j => p[i][1] < p[j][1]} : n \in 0..N}

Indexes(N) == [Terms -> PostingLists(N)]

\* round(1000 * log2(num / den)) for the quotients the model meets
Log2Milli(num, den) ==
    LET g == GCD(num, den)
        q == <<num \div g, den \div g>>
    IN  CASE q = <<1, 1>> -> 0
          [] q = <<2, 1>> -> 1000
          [] q = <<3, 1>> -> 1585
          [] q = <<3, 2>> -> 585
          [] q = <<4, 1>> -> 2000
          [] q = <<4, 3>> -> 415
          [] q = <<5, 1>> -> 2322
          [] q = <<5, 2>> -> 1322
          [] q = <<5, 3>> -> 737
          [] q = <<5, 4>> -> 322
          [] q = <<6, 1>> -> 2585
          [] q = <<7, 1>> -> 2807
          [] q = <<7, 2>> -> 1807
          [] q = <<7, 3>> -> 1222
          [] q = <<7, 4>> -> 807
          [] q = <<8, 1>> -> 3000
          [] q = <<8, 3>> -> 1415

-----------------------------------------------------------------------------
(* infre.tools.apriori: levelwise frequent termset mining.  The result is  *)
(* the dict termset -> document ids, as a sequence in insertion order.     *)

RECURSIVE DistinctKnown(_, _)
DistinctKnown(query, seen) ==
    IF query = <<>> THEN <<>>
    ELSE IF Head(query) \in seen \/ Head(query) \notin DOMAIN inverted_index
         THEN DistinctKnown(Tail(query), seen)
         ELSE <<Head(query)>> \o DistinctKnown(Tail(query), seen \cup {Head(query)})

PostingDocs(term) ==
    {inverted_index[term][k][1] : k \in 1..Len(inverted_index[term])}

RECURSIVE KeepFrequent(_, _)
KeepFrequent(cands, mf) ==
    IF cands = <<>> THEN <<>>
    ELSE IF Cardinality(Head(cands).docs) >= mf
         THEN <<Head(cands)>> \o KeepFrequent(Tail(cands), mf)
         ELSE KeepFrequent(Tail(cands), mf)

RECURSIVE Join(_, _, _, _, _)
Join(prev, mf, i, j, acc) ==
    IF i > Len(prev) THEN acc
    ELSE IF j > Len(prev) THEN Join(prev, mf, i + 1, i + 2, acc)
    ELSE LET u == prev[i].termset \cup prev[j].termset
             d == prev[i].docs \cap prev[j].docs
             ok == /\ Cardinality(u) = Cardinality(prev[i].termset) + 1
                   /\ \A t \in u : \E m \in 1..Len(prev) : prev[m].termset = u \ {t}
                   /\ \A m \in 1..Len(acc) : acc[m].termset # u
                   /\ Cardinality(d) >= mf
         IN  Join(prev, mf, i, j + 1,
                  IF ok THEN Append(acc, [termset |-> u, docs |-> d]) ELSE acc)

RECURSIVE Levels(_, _)
Levels(prev, mf) ==
    IF prev = <<>> THEN <<>> ELSE prev \o Levels(Join(prev, mf, 1, 2, <<>>), mf)

apriori(query, mf) ==
    LET known == DistinctKnown(query, {})
        level1 == [k \in 1..Len(known) |->
                      [termset |-> {known[k]}, docs |-> PostingDocs(known[k])]]
    IN  Levels(KeepFrequent(level1, mf), mf)

-----------------------------------------------------------------------------
(* bmodel.py: query2vec, termsets2vec                                      *)

\* round(log2(1 + (N / len(value))), 3) for each termset
query2vec(termsets) ==
    [i \in 1..Len(termsets) |->
        LET n == Cardinality(termsets[i].docs)
        IN  Log2Milli(n + num_docs, n)]

\* temp[id]: the frequencies in document id of the termset's terms
TempTfs(entry, id) ==
    IF id \notin entry.docs THEN {}
    ELSE {inverted_index[x[1]][x[2]][2] :
            x \in {y \in UNION {{<<t, k>> : k \in 1..Len(inverted_index[t])} :
                                  t \in entry.termset} :
                     inverted_index[y[1]][y[2]][1] = id}}

Max(S) == CHOOSE x \in S : \A y \in S : x >= y

\* round((1 + log2(max(tfs))), 3)
TsfWeightOfMax(tfs) == Scale + Log2Milli(Max(tfs), 1)

\* round((1 + log2(min(tfs))), 3)
TsfWeight(tfs) == Scale + Log2Milli(Min(tfs), 1)

termsets2vec(termsets) ==
    [shape |-> <<Len(termsets), num_docs>>,
     cell  |-> [p \in (1..Len(termsets)) \X (1..num_docs) |->
                   LET tfs == TempTfs(termsets[p[1]], p[2])
                   IN  IF tfs = {} THEN 0 ELSE TsfWeight(tfs)]]

-----------------------------------------------------------------------------
(* retrieval.py: calculate_tnw, calculate_doc_vectors                      *)

RECURSIVE Pow(_, _)
Pow(b, k) == IF k = 0 THEN 1 ELSE b * Pow(b, k - 1)

RECURSIVE Product(_, _)
Product(S, w) ==
    IF S = {} THEN 1 ELSE LET t == CHOOSE x \in S : TRUE IN w[t] * Product(S \ {t}, w)

\* the product cut to 3 decimals instead of rounded
TermsetWeightTruncated(termset, w) ==
    LET present == termset \cap DOMAIN w
    IN  IF present = {} THEN Scale
        ELSE Product(present, w) \div Pow(Scale, Cardinality(present) - 1)

\* tnw = 1; for term in termset: if term in nwk: tnw *= nwk[term]; round(tnw, 3)
TermsetWeight(termset, w) ==
    LET present == termset \cap DOMAIN w
    IN  IF present = {} THEN Scale
        ELSE RoundDiv(Product(present, w), Pow(Scale, Cardinality(present) - 1))

\* one scalar per termset, in iteration order
calculate_tnw(keys, w) == [i \in 1..Len(keys) |-> TermsetWeight(keys[i], w)]

\* tf * p / 10^6 rounded to thousandths, p = idf * tnw, without overflow
RoundScaled(tf, p) ==
    LET a  == tf * (p \div Scale)
        b  == tf * (p % Scale)
        t1 == a + (b \div Scale)
        q  == t1 \div Scale
        r  == (t1 % Scale) * Scale + (b % Scale)
        half == (Scale * Scale) \div 2
    IN  IF r < half THEN q
        ELSE IF r > half THEN q + 1
        ELSE IF q % 2 = 0 THEN q ELSE q + 1

\* round((tf_ij.T * idf).T, 3), or with idf * tnw when tnw is not the int 1
calculate_doc_vectors(tf_ij, idf, tnw) ==
    [shape |-> tf_ij.shape,
     cell  |-> [p \in DOMAIN tf_ij.cell |->
                   IF tnw.is_int
                   THEN RoundDiv(tf_ij.cell[p] * idf[p[1]], Scale)
                   ELSE RoundScaled(tf_ij.cell[p], idf[p[1]] * tnw.w[p[1]])]]

\* per-term weights given to calculate_tnw on its own
TwWeights == {0, 125, 250, 1000, 2000}
Termsets == (SUBSET Terms) \ {{}}

TWInit ==
    /\ tw_termsets \in UNION {[1..n -> Termsets] : n \in 0..2}
    /\ tw_nwk \in UNION {[D -> TwWeights] : D \in SUBSET Terms}
    /\ tw_ret = [done |-> FALSE, tnw |-> <<>>]

TWCalculate ==
    /\ ~tw_ret.done
    /\ tw_ret' = [done |-> TRUE, tnw |-> calculate_tnw(tw_termsets, tw_nwk)]
    /\ UNCHANGED <<tw_termsets, tw_nwk,
                   modelVars, prVars, rkVars, tsVars>>

-----------------------------------------------------------------------------
(* apriori followed by termsets2vec on generated collections *)

TsQueries == {<<"a">>, <<"b", "a">>, <<"a", "z", "b", "a">>}

NoMatrix == [shape |-> <<0, 0>>, cell |-> <<>>]

TSInit ==
    /\ ts_query \in TsQueries
    /\ ts_mf \in 1..(MaxDocs + 1)
    /\ ts_termsets = <<>>
    /\ ts_ret = [stage |-> "start", tsf |-> NoMatrix]

TSMine ==
    /\ ts_ret.stage = "start"
    /\ ts_termsets' = apriori(ts_query, ts_mf)
    /\ ts_ret' = [ts_ret EXCEPT !.stage = "mined"]
    /\ UNCHANGED <<ts_query, ts_mf,
                   modelVars, prVars, rkVars, twVars>>

TSVectorize ==
    /\ ts_ret.stage = "mined"
    /\ ts_ret' = [stage |-> "done", tsf |-> termsets2vec(ts_termsets)]
    /\ UNCHANGED <<ts_query, ts_mf, ts_termsets,
                   modelVars, prVars, rkVars, twVars>>

-----------------------------------------------------------------------------
(* bmodel.py: BaseIRModel *)

\* the subclass's _model_func: the int 1, or the termset weights
model_func(termsets) ==
    IF mode = "idf"
    THEN [is_int |-> TRUE, w |-> <<>>]
    ELSE [is_int |-> FALSE,
          w |-> calculate_tnw([i \in 1..Len(termsets) |-> termsets[i].termset], nwk)]

\* the subclass's _vectorizer
vectorizer(tsf_ij, idf, tnw) == calculate_doc_vectors(tsf_ij, idf, tnw)

\* the item "for i, query in enumerate(queries, start=1)" yields last-first
NextQueryReversed(qs, k) == qs[Len(qs) - k + 1]

\* the k-th item of "for i, query in enumerate(queries, start=1)"
NextQuery(qs, k) == qs[k]

NoCall == [call |-> "none", outcome |-> "none", precision |-> <<>>, recall |-> <<>>]
NoEval == [valid |-> FALSE, relevant |-> <<>>, precision |-> <<>>, recall |-> <<>>]

\* __init__
ObjectInit ==
    /\ q2vec = <<>>
    /\ docs2vec = <<>>
    /\ precision = <<>>
    /\ recall = <<>>
    /\ m_weights = <<>>
    /\ pc = "idle"
    /\ queries = <<>>
    /\ min_freq = 1
    /\ fit_i = 0
    /\ relevant = <<>>
    /\ eval_i = 0
    /\ retrieved_docs = <<>>
    /\ ret = NoCall
    /\ nfit = 0
    /\ neval = 0
    /\ log = <<>>
    /\ prev_eval = NoEval

\* the index of Scenario A, and one whose terms share a single document
CollectionA ==
    [index |-> [t \in Terms |-> IF t = "a" THEN <<<<1, 2>>, <<2, 1>>>>
                                            ELSE <<<<1, 1>>, <<2, 3>>>>],
     N |-> 2]
CollectionB ==
    [index |-> [t \in Terms |-> IF t = "a" THEN <<<<1, 1>>, <<3, 2>>>>
                                            ELSE <<<<2, 1>>, <<3, 1>>>>],
     N |-> 3]
Collections == {CollectionA, CollectionB}

\* the weighting of the model: idf only, or idf x termset weight
Weightings ==
    {[mode |-> "idf", nwk |-> <<>>],
     [mode |-> "tnw", nwk |-> [t \in Terms |-> IF t = "a" THEN 500 ELSE 2000]],
     [mode |-> "tnw", nwk |-> [t \in {"a"} |-> 0]]}

\* the arguments of fit and evaluate
Q1 == <<"z", "a">>
Q2 == <<"a", "b">>
Batches == {<<Q1>>, <<Q2, Q1>>}
MinFreqs == {2, 4}
RelSets == {{}, {2}}
RelLists == [1..2 -> RelSets]

FitBegin ==
    /\ pc = "idle"
    /\ nfit + neval < MaxCalls
    /\ \E qs \in Batches, mf \in MinFreqs :
          /\ queries' = qs
          /\ min_freq' = mf
    /\ fit_i' = 0
    /\ pc' = "fit"
    /\ nfit' = nfit + 1
    /\ log' = <<>>
    /\ ret' = [NoCall EXCEPT !.call = "fit", !.outcome = "running"]
    /\ UNCHANGED <<inverted_index, num_docs, mode, nwk, q2vec, docs2vec, m_weights,
                   precision, recall, relevant, eval_i, retrieved_docs, neval,
                   prev_eval,
                   prVars, rkVars, twVars, tsVars>>

\* one iteration of fit's loop
FitStep ==
    /\ pc = "fit"
    /\ fit_i < Len(queries)
    /\ LET query == NextQuery(queries, fit_i + 1)
           freq_termsets == apriori(query, min_freq)
           idf_vec == query2vec(freq_termsets)
           tsf_ij == termsets2vec(freq_termsets)
       IN  /\ docs2vec' = Append(docs2vec, tsf_ij)
           /\ q2vec' = Append(q2vec, idf_vec)
           /\ m_weights' = Append(m_weights, model_func(freq_termsets))
           /\ log' = Append(log, [op |-> "mine", i |-> fit_i + 1, query |-> query,
                                  mined |-> Len(freq_termsets)])
    /\ fit_i' = fit_i + 1
    /\ UNCHANGED <<inverted_index, num_docs, mode, nwk, precision, recall, pc,
                   queries, min_freq, relevant, eval_i, retrieved_docs, ret, nfit,
                   neval, prev_eval,
                   prVars, rkVars, twVars, tsVars>>

\* return self
FitReturn ==
    /\ pc = "fit"
    /\ fit_i = Len(queries)
    /\ pc' = "idle"
    /\ ret' = [ret EXCEPT !.outcome = "returned"]
    /\ UNCHANGED <<inverted_index, num_docs, mode, nwk, q2vec, docs2vec, m_weights,
                   precision, recall, queries, min_freq, fit_i, relevant, eval_i,
                   retrieved_docs, nfit, neval, log, prev_eval,
                   prVars, rkVars, twVars, tsVars>>

EvalBegin ==
    /\ pc = "idle"
    /\ nfit + neval < MaxCalls
    /\ \E rel \in RelLists : relevant' = rel
    /\ eval_i' = 0
    /\ pc' = "evaluate"
    /\ neval' = neval + 1
    /\ prev_eval' = IF ret.call = "evaluate" /\ ret.outcome = "returned"
                    THEN [valid |-> TRUE, relevant |-> relevant,
                          precision |-> ret.precision, recall |-> ret.recall]
                    ELSE NoEval
    /\ ret' = [NoCall EXCEPT !.call = "evaluate", !.outcome = "running"]
    /\ UNCHANGED <<inverted_index, num_docs, mode, nwk, q2vec, docs2vec, m_weights,
                   precision, recall, queries, min_freq, fit_i, retrieved_docs,
                   nfit, log,
                   prVars, rkVars, twVars, tsVars>>

\* the length of zip(self._q2vec, self._docs2vec, relevant)
ZipLen == Min({Len(q2vec), Len(docs2vec), Len(relevant)})

\* the ranking evaluate computes for entry i
Ranking(i) ==
    LET dtsm == vectorizer(docs2vec[i], q2vec[i], m_weights[i])
    IN  rank_documents(qd_similarities(q2vec[i], dtsm))

\* retrieved_docs.keys()
Keys(ranking) == [k \in 1..Len(ranking) |-> ranking[k][1]]

\* one iteration of evaluate's loop, precision_recall returning
EvalStep ==
    /\ pc = "evaluate"
    /\ eval_i < ZipLen
    /\ LET i == eval_i + 1
           ranking == Ranking(i)
           res == calc_precision_recall(Keys(ranking), relevant[i])
       IN  /\ res.outcome = "returned"
           /\ retrieved_docs' = ranking
           /\ precision' = Append(precision, RoundDiv(res.avg_pre[1] * Scale, res.avg_pre[2]))
           /\ recall' = Append(recall, RoundDiv(res.avg_rec[1] * Scale, res.avg_rec[2]))
           /\ log' = Append(log, [op |-> "score", i |-> i, query |-> <<>>, mined |-> 0])
    /\ eval_i' = eval_i + 1
    /\ UNCHANGED <<inverted_index, num_docs, mode, nwk, q2vec, docs2vec, m_weights,
                   pc, queries, min_freq, fit_i, relevant, ret, nfit, neval,
                   prev_eval,
                   prVars, rkVars, twVars, tsVars>>

\* one iteration of evaluate's loop, precision_recall raising: evaluate ends
EvalRaise ==
    /\ pc = "evaluate"
    /\ eval_i < ZipLen
    /\ LET i == eval_i + 1
           ranking == Ranking(i)
           res == calc_precision_recall(Keys(ranking), relevant[i])
       IN  /\ res.outcome # "returned"
           /\ retrieved_docs' = ranking
           /\ ret' = [ret EXCEPT !.outcome = res.outcome]
           /\ log' = Append(log, [op |-> "score", i |-> i, query |-> <<>>, mined |-> 0])
    /\ eval_i' = eval_i + 1
    /\ pc' = "idle"
    /\ UNCHANGED <<inverted_index, num_docs, mode, nwk, q2vec, docs2vec, m_weights,
                   precision, recall, queries, min_freq, fit_i, relevant, nfit,
                   neval, prev_eval,
                   prVars, rkVars, twVars, tsVars>>

\* return array(self.precision), array(self.recall)
EvalReturn ==
    /\ pc = "evaluate"
    /\ eval_i = ZipLen
    /\ pc' = "idle"
    /\ ret' = [call |-> "evaluate", outcome |-> "returned",
               precision |-> precision, recall |-> recall]
    /\ UNCHANGED <<inverted_index, num_docs, mode, nwk, q2vec, docs2vec, m_weights,
                   precision, recall, queries, min_freq, fit_i, relevant, eval_i,
                   retrieved_docs, nfit, neval, log, prev_eval,
                   prVars, rkVars, twVars, tsVars>>

-----------------------------------------------------------------------------
(* Specifications *)

PRIdle ==
    /\ pr_sim_docs = <<>>
    /\ pr_relevant = {}
    /\ pr = PRStart
    /\ pr_i = 0
    /\ pr_ret = PRRunning

RKIdle ==
    /\ rk_query = <<>>
    /\ rk_dtm = NoMatrix
    /\ rk_sims = <<>>
    /\ rk_ret = <<>>

TWIdle ==
    /\ tw_termsets = <<>>
    /\ tw_nwk = <<>>
    /\ tw_ret = [done |-> FALSE, tnw |-> <<>>]

TSIdle ==
    /\ ts_query = <<>>
    /\ ts_mf = 1
    /\ ts_termsets = <<>>
    /\ ts_ret = [stage |-> "start", tsf |-> NoMatrix]

NoCollection ==
    /\ inverted_index = [t \in Terms |-> <<>>]
    /\ num_docs = 0
    /\ mode = "idf"
    /\ nwk = <<>>

\* a model object on one of the collections, called up to MaxCalls times
Init ==
    /\ \E c \in Collections :
          /\ inverted_index = c.index
          /\ num_docs = c.N
    /\ \E w \in Weightings :
          /\ mode = w.mode
          /\ nwk = w.nwk
    /\ ObjectInit
    /\ PRIdle /\ RKIdle /\ TWIdle /\ TSIdle

Next ==
    \/ FitBegin
    \/ FitStep
    \/ FitReturn
    \/ EvalBegin
    \/ EvalStep
    \/ EvalRaise
    \/ EvalReturn

Spec == Init /\ [][Next]_vars

\* calc_precision_recall on every ranked list and relevance set
InitPR == PRInit /\ NoCollection /\ ObjectInit /\ RKIdle /\ TWIdle /\ TSIdle
NextPR == PRStep \/ PRReturn
SpecPR == InitPR /\ [][NextPR]_vars

\* qd_similarities and rank_documents on every small query and matrix
InitRank == RKInit /\ NoCollection /\ ObjectInit /\ PRIdle /\ TWIdle /\ TSIdle
NextRank == RKSimilarities \/ RKRank
SpecRank == InitRank /\ [][NextRank]_vars

\* calculate_tnw on every small termset list and weight mapping
InitTnw == TWInit /\ NoCollection /\ ObjectInit /\ PRIdle /\ RKIdle /\ TSIdle
NextTnw == TWCalculate
SpecTnw == InitTnw /\ [][NextTnw]_vars

\* apriori and termsets2vec on every generated collection
InitVec ==
    /\ inverted_index \in Indexes(MaxDocs)
    /\ num_docs = MaxDocs
    /\ mode = "idf"
    /\ nwk = <<>>
    /\ TSInit /\ ObjectInit /\ PRIdle /\ RKIdle /\ TWIdle
NextVec == TSMine \/ TSVectorize
SpecVec == InitVec /\ [][NextVec]_vars

-----------------------------------------------------------------------------
(* Claims *)

\* C1: calc_precision_recall called with an empty relevance set fails with
\* the dedicated error NoRelevantDocumentsError, for every ranked list.
C1_EmptyRelevanceRaisesDedicatedError ==
    (pr_ret.outcome # "running" /\ pr_relevant = {})
        => pr_ret.outcome = "NoRelevantDocumentsError"

InUnit(x) == 0 <= x[1] /\ x[1] <= x[2]

\* C2: for every ranked list and non-empty relevance set, every precision
\* and recall value recorded at a relevant hit lies in [0, 1], and the
\* recorded recall values are non-decreasing in rank order.
C2_RecordedValuesBounded ==
    pr_relevant # {} =>
        /\ Len(pr.precision) = Len(pr.recall)
        /\ \A k \in 1..Len(pr.precision) :
              InUnit(pr.precision[k]) /\ InUnit(pr.recall[k])
        /\ \A k \in 1..(Len(pr.recall) - 1) : FracLeq(pr.recall[k], pr.recall[k + 1])

\* two hits recorded, the second below precision 1, and the averages returned
C2_Witness ==
    /\ pr_ret.outcome = "returned"
    /\ Len(pr.recall) = 2
    /\ pr.precision[2] = <<2, 3>>
    /\ pr.recall[2] = <<1, 1>>

\* the ranking lists every document once, scores never increasing
TotalOrderDesc(ranking, query, dtm) ==
    /\ Len(ranking) = dtm.shape[2]
    /\ {ranking[k][1] : k \in 1..Len(ranking)} = 1..dtm.shape[2]
    /\ \A k \in 1..Len(ranking) :
          ranking[k][2] = cosine_similarity(query, Col(dtm, ranking[k][1]))
    /\ \A k \in 1..(Len(ranking) - 1) : ~SimLess(ranking[k][2], ranking[k + 1][2])

\* C3: qd_similarities followed by rank_documents (and evaluate_sim) returns
\* every document id 1..N exactly once, none filtered out, similarity scores
\* non-increasing from first to last.
C3_RankingIsTotalDescending ==
    rk_ret # <<>> =>
        /\ TotalOrderDesc(rk_ret, rk_query, rk_dtm)
        /\ TotalOrderDesc(evaluate_sim(rk_query, rk_dtm), rk_query, rk_dtm)

\* a ranking that had to move document 2 ahead of document 1, one score negative
C3_Witness ==
    /\ Len(rk_ret) = 2
    /\ rk_ret[1][1] = 2
    /\ SimLess(rk_ret[2][2], rk_ret[1][2])
    /\ rk_ret[2][2].dot < 0

\* C9: cosine_similarity returns exactly 0, by its first return and without
\* the division, whenever either argument is the all-zero vector.
C9_ZeroVectorScoresZero ==
    \A k \in 1..Len(rk_sims) :
        (AllZero(rk_query) \/ AllZero(Col(rk_dtm, k))) => rk_sims[k][2] = ZeroSim

\* a non-zero query scored against an all-zero column and a non-zero one
C9_Witness ==
    /\ Len(rk_sims) = 2
    /\ Len(rk_query) = 2
    /\ ~AllZero(rk_query)
    /\ AllZero(Col(rk_dtm, 1))
    /\ ~AllZero(Col(rk_dtm, 2))
    /\ rk_sims[2][2].branch = "div"

\* the terms of termset i that have a weight
TwPresent(i) == tw_termsets[i] \cap DOMAIN tw_nwk

\* C8 as stated: one scalar per termset, in iteration order, equal to the
\* product of the per-term weights of the termset's terms.
C8_ScalarIsExactProduct ==
    tw_ret.done =>
        /\ Len(tw_ret.tnw) = Len(tw_termsets)
        /\ \A i \in 1..Len(tw_termsets) :
              tw_ret.tnw[i] * Pow(Scale, Cardinality(TwPresent(i))) =
                  Scale * Product(TwPresent(i), tw_nwk)

\* x thousandths is a nearest 3-decimal value of p / d
NearestTo(x, p, d) == 2 * Abs(x * d - p) <= d

\* C8 amended: one scalar per termset, in iteration order, equal to the
\* product of the weights of those terms of the termset that have an entry
\* in the weight mapping (a term without one counts as 1), rounded to 3
\* decimals; a term of weight 0 makes the scalar 0 and a term of weight 1
\* leaves it what the other terms give.
C8_ScalarIsRoundedProduct ==
    tw_ret.done =>
        /\ Len(tw_ret.tnw) = Len(tw_termsets)
        /\ \A i \in 1..Len(tw_termsets) :
              LET present == TwPresent(i)
                  x == tw_ret.tnw[i]
              IN  /\ present = {} => x = Scale
                  /\ present # {} =>
                        NearestTo(x, Product(present, tw_nwk),
                                  Pow(Scale, Cardinality(present) - 1))
                  /\ (\E t \in present : tw_nwk[t] = 0) => x = 0
                  /\ \A t \in present :
                        tw_nwk[t] = Scale =>
                            IF present = {t} THEN x = Scale
                            ELSE NearestTo(x, Product(present \ {t}, tw_nwk),
                                           Pow(Scale, Cardinality(present) - 2))

\* a two-term termset whose product, 0.015625, rounding changes
C8_Witness ==
    /\ tw_ret.done
    /\ Len(tw_termsets) = 1
    /\ tw_termsets[1] = {"a", "b"}
    /\ tw_nwk = [t \in Terms |-> 125]
    /\ tw_ret.tnw[1] = 16

\* the frequency of term t in document d
TfIn(t, d) ==
    LET k == CHOOSE j \in 1..Len(inverted_index[t]) : inverted_index[t][j][1] = d
    IN  inverted_index[t][k][2]

\* C4: in the matrix of termsets2vec, for every termset S (row i) and every
\* document d in 1..N, cell (i, d) is exactly 0 when d is not in docs(S), and
\* otherwise the non-zero weight of the minimum frequency in d over the
\* terms of S.
C4_CellsAreMinTfWeights ==
    ts_ret.stage = "done" =>
        /\ ts_ret.tsf.shape = <<Len(ts_termsets), num_docs>>
        /\ \A i \in 1..Len(ts_termsets), d \in 1..num_docs :
              LET e == ts_termsets[i]
                  c == ts_ret.tsf.cell[<<i, d>>]
              IN  IF d \in e.docs
                  THEN /\ c # 0
                       /\ \E t \in e.termset :
                             /\ \A u \in e.termset : TfIn(t, d) <= TfIn(u, d)
                             /\ c = Scale + Log2Milli(TfIn(t, d), 1)
                  ELSE c = 0

\* a two-term termset whose terms differ in frequency in one of its
\* documents and that misses another document
C4_Witness ==
    /\ ts_ret.stage = "done"
    /\ \E i \in 1..Len(ts_termsets) :
          /\ ts_termsets[i].termset = {"a", "b"}
          /\ 1 \in ts_termsets[i].docs
          /\ TfIn("a", 1) = 2
          /\ TfIn("b", 1) = 1
          /\ ts_ret.tsf.cell[<<i, 1>>] = Scale
          /\ 2 \notin ts_termsets[i].docs
          /\ ts_ret.tsf.cell[<<i, 2>>] = 0

\* C5: evaluate(relevant) called again on the same fitted model with the
\* same relevance sets returns the same precision and recall sequences as
\* the first call.
C5_EvaluateTwiceSameResult ==
    (/\ pc = "idle"
     /\ ret.call = "evaluate"
     /\ ret.outcome = "returned"
     /\ prev_eval.valid
     /\ prev_eval.relevant = relevant)
        => /\ ret.precision = prev_eval.precision
           /\ ret.recall = prev_eval.recall

\* C6: after fit(Q2) completes on a model that was already fitted, the
\* query-vector, document-matrix and model-weight collections hold exactly
\* one entry per query of Q2, in Q2's order, and no entry of Q1.
C6_RefitClearsCollections ==
    (/\ pc = "idle"
     /\ ret.call = "fit"
     /\ ret.outcome = "returned"
     /\ nfit >= 2)
        => /\ Len(q2vec) = Len(queries)
           /\ Len(docs2vec) = Len(queries)
           /\ Len(m_weights) = Len(queries)
           /\ \A k \in 1..Len(queries) :
                 LET mined == apriori(queries[k], min_freq)
                 IN  /\ q2vec[k] = query2vec(mined)
                     /\ docs2vec[k] = termsets2vec(mined)
                     /\ m_weights[k] = model_func(mined)

\* C7 as stated: in a batch run (fit followed by evaluate) the scoring of
\* query i happens before the mining of query i + 1 starts.
C7_ScoredBeforeNextMined ==
    nfit = 1 =>
        \A k \in 1..Len(log) :
            (log[k].op = "mine" /\ log[k].i >= 2) =>
                \E j \in 1..(k - 1) : log[j].op = "score" /\ log[j].i = log[k].i - 1

\* C7 amended: in a batch run over q1..qn (fit followed by evaluate) fit mines
\* and vectorizes the queries one at a time in batch order, each fully before
\* the next; every query of the batch is mined and vectorized before the
\* scoring of any query begins; evaluate then scores the stored entries one
\* at a time in the same order.
C7_AllMinedThenScoredInOrder ==
    \A k \in 1..Len(log) :
        /\ log[k].op = "mine" =>
              /\ log[k].i = k
              /\ log[k].query = queries[k]
        /\ log[k].op = "score" =>
              /\ Cardinality({j \in 1..k : log[j].op = "mine"}) = Len(queries)
              /\ \/ log[k].i = 1
                 \/ log[k - 1].op = "score" /\ log[k - 1].i = log[k].i - 1

\* the first batch of two queries mined, then both scored
C7_Witness ==
    /\ nfit = 1
    /\ Len(queries) = 2
    /\ Len(log) = 4
    /\ log[2].op = "mine"
    /\ log[3].op = "score"
    /\ log[4].op = "score"
    /\ log[4].i = 2

\* C10: an empty mined occurrence map is a valid outcome: fit stores an
\* empty query vector and a 0 x N matrix for it, and evaluate, given a
\* non-empty relevance set within 1..N, scores every document 0, ranks all N
\* documents and does not raise.
C10_EmptyMiningIsValid ==
    /\ \A k \in 1..Len(log) :
          (log[k].op = "mine" /\ log[k].mined = 0) =>
              LET idx == Len(q2vec) - fit_i + k
              IN  /\ q2vec[idx] = <<>>
                  /\ docs2vec[idx].shape = <<0, num_docs>>
    /\ (ret.call = "evaluate" /\ eval_i >= 1 /\ q2vec[eval_i] = <<>>) =>
          /\ Len(retrieved_docs) = num_docs
          /\ {retrieved_docs[k][1] : k \in 1..Len(retrieved_docs)} = 1..num_docs
          /\ \A k \in 1..Len(retrieved_docs) : retrieved_docs[k][2] = ZeroSim
          /\ (relevant[eval_i] # {} /\ relevant[eval_i] \subseteq 1..num_docs)
                => ret.outcome # "ZeroDivisionError"

\* a query that mined nothing, scored against a non-empty relevance set, and
\* evaluate returned
C10_Witness ==
    /\ ret.call = "evaluate"
    /\ ret.outcome = "returned"
    /\ eval_i >= 1
    /\ q2vec[eval_i] = <<>>
    /\ relevant[eval_i] = {2}
    /\ Len(retrieved_docs) = num_docs
    /\ Len(precision) >= eval_i
    /\ \E k \in 1..Len(log) : log[k].op = "mine" /\ log[k].mined = 0

=============================================================================
